---- MODULE Spec2Model ----
(***************************************************************************)
(* One render pass of tides.py: fetch the tide predictions, clear the      *)
(* canvas, paint the daylight bands, the hour labels and the tide lines,   *)
(* composite the moon disc and show the image.                             *)
(*                                                                         *)
(* Times are seconds after local midnight, tide heights are tenths of a    *)
(* foot, a progress value p is kept as the number of seconds s with        *)
(* p = s / DaySeconds.  Text is recorded as the draw.text calls made       *)
(* (glyph pixels depend on the font and are not modelled).                 *)
(***************************************************************************)
EXTENDS Integers, Sequences, FiniteSets, TLC

VARIABLES pc, tide_data, img, predictions, sun_times, i, lines, texts,
          phase, shown

vars == <<pc, tide_data, img, predictions, sun_times, i, lines, texts,
          phase, shown>>

\* ---------------------------------------------------------------- bounds

\* inky_display.width and inky_display.height of the attached panel
Width == 48
Height == 64
\* most predictions a response of the tide service carries
MaxRaw == 5

\* ------------------------------------------------------------- constants

Hour == 3600
DaySeconds == 24 * Hour
padding == 30
moon_radius == 40
\* 0.5 ft below the lowest tide, in tenths of a foot
Margin == 5
\* graph_y = int(height * 0.5 - 32)
GraphTopOffset == 32
label_padding == 16

\* the palette of the panel (inky_display.WHITE, ...); a new "P" image is
\* filled with palette index 0
BLACK == "black"
WHITE == "white"
BLUE == "blue"
YELLOW == "yellow"
ORANGE == "orange"

Cols == 0 .. Width - 1
Rows == 0 .. Height - 1

\* ------------------------------------------------------------ arithmetic

\* int(a / b) for b > 0: Python's int() truncates towards zero
TruncDiv(a, b) == IF a >= 0 THEN a \div b ELSE -((-a) \div b)

SeqMin(s) == CHOOSE m \in {s[k] : k \in 1 .. Len(s)} :
                 \A k \in 1 .. Len(s) : m <= s[k]
SeqMax(s) == CHOOSE m \in {s[k] : k \in 1 .. Len(s)} :
                 \A k \in 1 .. Len(s) : m >= s[k]

\* ------------------------------------------------------------- geometry

graph_width == Width
graph_height == Height \div 2
graph_x == 0
graph_y == TruncDiv(Height - 2 * GraphTopOffset, 2)
graph_bottom == graph_y + graph_height
y_top == 0
y_bottom == Height

\* int(graph_x + progress * graph_width), progress = s / DaySeconds
XOfProgress(s) == graph_x + TruncDiv(s * graph_width, DaySeconds)

\* mutant of XOfIndex: the index is divided by the number of samples
XOfIndex_DivByCount(k, n) == graph_x + (k * graph_width) \div n

\* int(graph_x + (i * graph_width) // (len(predictions) - 1)), i from 0
XOfIndex(k, n) == graph_x + (k * graph_width) \div (n - 1)

\* ------------------------------------------------------------ the canvas

Blank(c) == [y \in Rows |-> [x \in Cols |-> c]]

\* columns of a vertical line drawn upwards from (x, y0) with this width
LineColumns(x, width) == IF width = 2 THEN {x - 1, x} ELSE {x}

\* draw.line((x, y0, x, y1), fill=c, width=width) with y1 <= y0
VLine(im, x, y0, y1, c, width) ==
    [y \in Rows |-> [xx \in Cols |->
        IF y1 <= y /\ y <= y0
           /\ xx \in (IF y1 = y0 THEN {x} ELSE LineColumns(x, width))
        THEN c ELSE im[y][xx]]]

\* ------------------------------------------------------------- the inputs

\* what urlopen + json.loads can leave in tide_data: None after any
\* exception, a JSON object without "predictions" (the service's error
\* reply), or an object with a list of predictions
\* the spacing of the predictions of a response, and its first instant:
\* begin_date is 00:00 UTC of the day of local midnight, so a response
\* starts at local midnight or before it
SampleStep == 6 * Hour + Hour \div 4
Heights == {10, 190}
FirstSampleTimes == {0 - SampleStep, 0}

RawSeries ==
    UNION {{[k \in 1 .. n |-> [t |-> t0 + (k - 1) * SampleStep, v |-> h[k]]] :
              h \in [1 .. n -> Heights], t0 \in FirstSampleTimes} :
           n \in 0 .. MaxRaw}

Responses ==
    {[kind |-> "none", predictions |-> <<>>],
     [kind |-> "error", predictions |-> <<>>]}
    \cup {[kind |-> "ok", predictions |-> r] : r \in RawSeries}

\* the four instants astral returns, dawn <= sunrise <= sunset <= dusk:
\* an ordinary day, dawn and dusk on, before and after a sample instant,
\* and days shorter than two hours (high latitudes in winter)
HM(h, m) == h * Hour + m * 60
Sun(a, b, c, d) == [dawn |-> a, sunrise |-> b, sunset |-> c, dusk |-> d]
SunCases ==
    {Sun(HM(5, 0), HM(8, 0), HM(17, 0), HM(19, 0)),
     Sun(SampleStep, HM(8, 0), HM(17, 0), HM(19, 0)),
     Sun(HM(7, 0), HM(8, 0), HM(17, 0), HM(19, 0)),
     Sun(HM(5, 0), HM(8, 0), HM(11, 0), 2 * SampleStep),
     Sun(SampleStep, HM(8, 0), HM(11, 0), HM(12, 0)),
     Sun(HM(5, 0), HM(8, 0), HM(17, 0), 3 * SampleStep),
     Sun(HM(5, 0), HM(8, 0), HM(9, 0), HM(19, 0)),
     Sun(HM(7, 0), HM(8, 0), HM(9, 30), HM(12, 0))}

\* ------------------------------------------------------ tides.py helpers

\* mutant of DayLocal: the lower end of the local day is not tested
DayLocal_NoLowerBound(raw) == SelectSeq(raw, LAMBDA p : p.t < DaySeconds)

\* the predictions of the local day: local_midnight <= t < next midnight
DayLocal(raw) == SelectSeq(raw, LAMBDA p : 0 <= p.t /\ p.t < DaySeconds)

\* calculate_sun_times
calculate_sun_times(q) ==
    [dawn |-> q.dawn,
     sunrise |-> q.sunrise,
     golden_start |-> q.sunrise,
     golden_end |-> q.sunrise + Hour,
     evening_golden_start |-> q.sunset - Hour,
     evening_golden_end |-> q.sunset,
     sunset |-> q.sunset,
     dusk |-> q.dusk]

NoSun == [dawn |-> 0, sunrise |-> 0, golden_start |-> 0, golden_end |-> 0,
          evening_golden_start |-> 0, evening_golden_end |-> 0,
          sunset |-> 0, dusk |-> 0]

values == [k \in 1 .. Len(predictions) |-> predictions[k].v]
min_tide == SeqMin(values) - Margin
max_tide == SeqMax(values)
tide_range == max_tide - min_tide

\* mutant of YOfValue: the height is measured from the lowest tide itself
YOfValue_NoMargin(value) ==
    graph_y + graph_height
        - ((value - SeqMin(values)) * graph_height) \div tide_range

\* int(graph_y + graph_height - int(((value - min_tide) / tide_range) * graph_height))
YOfValue(value) ==
    graph_y + graph_height - ((value - min_tide) * graph_height) \div tide_range

\* night test of the hour labels and of the tide lines
IsNight(s) == s <= sun_times.dawn \/ s >= sun_times.dusk

\* pred_time.minute == 0
IsFullHour(t) == (t % Hour) \div 60 = 0

\* mutant of IsPeak: the comparison with the next sample is not strict
IsPeak_NotStrict(vs, k) == vs[k] > vs[k - 1] /\ vs[k] >= vs[k + 1]

\* the extremum test of sample k (1-based) of a series of heights
IsPeak(vs, k) == vs[k] > vs[k - 1] /\ vs[k] > vs[k + 1]
IsTrough(vs, k) == vs[k] < vs[k - 1] /\ vs[k] < vs[k + 1]
IsExtremum(vs, k) == k > 1 /\ k < Len(vs) /\ (IsPeak(vs, k) \/ IsTrough(vs, k))

\* mutant of InDaylight: dawn and dusk themselves are left out
InDaylight_Exclusive(s) == sun_times.dawn < s /\ s < sun_times.dusk

\* dawn_progress <= progress <= dusk_progress
InDaylight(s) == sun_times.dawn <= s /\ s <= sun_times.dusk

\* ---------------------------------------------------------------- bands

x_dawn == XOfProgress(sun_times.dawn)
x_sunrise == XOfProgress(sun_times.sunrise)
x_golden_start == XOfProgress(sun_times.golden_start)
x_golden_end == XOfProgress(sun_times.golden_end)
x_evening_golden_start == XOfProgress(sun_times.evening_golden_start)
x_evening_golden_end == XOfProgress(sun_times.evening_golden_end)
x_sunset == XOfProgress(sun_times.sunset)
x_dusk == XOfProgress(sun_times.dusk)

\* mutant of BandRects: the seven calls made in left-to-right order
BandRects_LeftToRight ==
    <<[x0 |-> graph_x, x1 |-> x_dawn, fill |-> BLUE],
      [x0 |-> x_dawn, x1 |-> x_sunrise, fill |-> ORANGE],
      [x0 |-> x_sunrise, x1 |-> x_golden_end, fill |-> YELLOW],
      [x0 |-> x_golden_end, x1 |-> x_evening_golden_start, fill |-> WHITE],
      [x0 |-> x_evening_golden_start, x1 |-> x_sunset, fill |-> YELLOW],
      [x0 |-> x_sunset, x1 |-> x_dusk, fill |-> ORANGE],
      [x0 |-> x_dusk, x1 |-> graph_x + graph_width, fill |-> BLUE]>>

\* the seven draw.rectangle calls, in the order the code makes them
BandRects ==
    <<[x0 |-> graph_x, x1 |-> x_dawn, fill |-> BLUE],
      [x0 |-> x_dusk, x1 |-> graph_x + graph_width, fill |-> BLUE],
      [x0 |-> x_dawn, x1 |-> x_sunrise, fill |-> ORANGE],
      [x0 |-> x_sunset, x1 |-> x_dusk, fill |-> ORANGE],
      [x0 |-> x_sunrise, x1 |-> x_golden_end, fill |-> YELLOW],
      [x0 |-> x_evening_golden_start, x1 |-> x_sunset, fill |-> YELLOW],
      [x0 |-> x_golden_end, x1 |-> x_evening_golden_start, fill |-> WHITE]>>

\* a rectangle whose right edge is left of its left edge: Pillow from 9.5
\* raises ValueError, older releases swap the two edges
Reversed(r) == r.x0 > r.x1

\* the rectangle of the last of the calls 1 .. k that covers column x and
\* row y (0 when none does): the call that decides the pixel
LastCover(rects, k, x, y) ==
    LET hit == {j \in 1 .. k :
                   /\ y_top <= y /\ y <= y_bottom
                   /\ IF Reversed(rects[j])
                      THEN rects[j].x1 <= x /\ x <= rects[j].x0
                      ELSE rects[j].x0 <= x /\ x <= rects[j].x1}
    IN  IF hit = {} THEN 0 ELSE CHOOSE j \in hit : \A m \in hit : m <= j

\* the canvas after the calls 1 .. k, made in order on im: both corners
\* are inside a rectangle, and a later call paints over an earlier one
PaintRects(im, rects, k) ==
    [y \in Rows |-> [x \in Cols |->
        LET j == LastCover(rects, k, x, y)
        IN  IF j = 0 THEN im[y][x] ELSE rects[j].fill]]

\* index of the first reversed rectangle, 0 when there is none
FirstReversed(rects) ==
    IF \E k \in 1 .. Len(rects) : Reversed(rects[k])
    THEN CHOOSE k \in 1 .. Len(rects) :
             Reversed(rects[k]) /\ \A j \in 1 .. k - 1 : ~Reversed(rects[j])
    ELSE 0

\* ----------------------------------------------------------------- moon

\* cos(phase * 2 * pi) in thousandths, phase = k / 12, k = 0 .. 12
CosTable == <<1000, 866, 500, 0, -500, -866, -1000, -866, -500, 0, 500, 866, 1000>>
PhaseUnits == Len(CosTable) - 1
Phases == {0, 6, 12}
CosMilli(ph) == CosTable[ph + 1]

\* a <= b * sqrt(w2) for integers a, b and w2 >= 0, decided exactly
LeqRoot(a, b, w2) ==
    IF b >= 0 THEN a <= 0 \/ a * a <= b * b * w2
              ELSE a <= 0 /\ a * a >= b * b * w2

\* the polygon of draw_moon, row by row: pixel px of row radius + dy lies
\* between the terminator radius + x_offset and the edge of the half
\* (the left edge 0 while waxing, the right edge 2 * radius while waning),
\* with width = sqrt(radius^2 - dy^2)
InDark(px, dy, radius, ph) ==
    LET w2 == radius * radius - dy * dy
        a == (px - radius) * 1000
    IN  IF 0 <= ph /\ 2 * ph < PhaseUnits
        THEN \* x_offset = -width * cos: 0 <= px <= radius + x_offset
             0 <= px /\ LeqRoot(a, 0 - CosMilli(ph), w2)
        ELSE IF PhaseUnits <= 2 * ph /\ ph <= PhaseUnits
        THEN \* x_offset = width * cos: radius + x_offset <= px <= 2 * radius
             px <= 2 * radius /\ LeqRoot(0 - a, 0 - CosMilli(ph), w2)
        ELSE FALSE

\* the ellipse [0, 0, 2 * radius, 2 * radius]: the disc of that radius
InCircle(px, py, radius) ==
    (px - radius) * (px - radius) + (py - radius) * (py - radius) <= radius * radius

\* mutant of Mask: the whole box is pasted
Mask_Rectangle(px, py, radius) ==
    0 <= px /\ px <= 2 * radius /\ 0 <= py /\ py <= 2 * radius

\* mask: 255 inside the ellipse, 0 outside
Mask(px, py, radius) ==
    0 <= px /\ px <= 2 * radius /\ 0 <= py /\ py <= 2 * radius
    /\ InCircle(px, py, radius)

\* the outline of the ellipse: disc pixels with a neighbour off the disc
OnOutline(px, py, radius) ==
    InCircle(px, py, radius)
    /\ \E d \in {<<1, 0>>, <<-1, 0>>, <<0, 1>>, <<0, -1>>} :
           ~InCircle(px + d[1], py + d[2], radius)

\* temp: white, the outlined white disc, then the black polygon
TempPixel(px, py, radius, ph) ==
    IF InDark(px, py - radius, radius, ph) THEN BLACK
    ELSE IF OnOutline(px, py, radius) THEN BLACK
    ELSE WHITE

\* img.paste(temp, (x - radius, y - radius), mask=mask)
draw_moon(im, cx, cy, radius, ph) ==
    [y \in Rows |-> [x \in Cols |->
        LET px == x - (cx - radius)
            py == y - (cy - radius)
        IN  IF Mask(px, py, radius) THEN TempPixel(px, py, radius, ph)
            ELSE im[y][x]]]

moon_x == padding + moon_radius
moon_y == padding + moon_radius

\* -------------------------------------------------------------- actions

Init ==
    /\ pc = "fetch"
    /\ tide_data = [kind |-> "none", predictions |-> <<>>]
    /\ img = Blank(BLACK)
    /\ predictions = <<>>
    /\ sun_times = NoSun
    /\ i = 0
    /\ lines = <<>>
    /\ texts = <<>>
    /\ phase = 0
    /\ shown = FALSE

\* lines 173-178: the fetch; every exception leaves tide_data = None
Fetch ==
    /\ pc = "fetch"
    /\ \E r \in Responses : tide_data' = r
    /\ pc' = "background"
    /\ UNCHANGED <<img, predictions, sun_times, i, lines, texts, phase, shown>>

\* lines 185-187: every pixel of the canvas is set to white
DrawBackground ==
    /\ pc = "background"
    /\ img' = Blank(WHITE)
    /\ pc' = "tide"
    /\ UNCHANGED <<tide_data, predictions, sun_times, i, lines, texts, phase, shown>>

\* tide_data and "predictions" in tide_data
HasPredictions(d) == d.kind = "ok"

\* len(predictions) >= 2
EnoughSamples(ps) == Len(ps) >= 2

\* lines 190-197: the guards of the tide section
TideGuard ==
    /\ pc = "tide"
    /\ \/ /\ ~HasPredictions(tide_data)
          /\ pc' = "moon"
          /\ UNCHANGED predictions
       \/ /\ HasPredictions(tide_data)
          /\ predictions' = DayLocal(tide_data.predictions)
          /\ pc' = IF EnoughSamples(predictions') THEN "sun" ELSE "moon"
    /\ UNCHANGED <<tide_data, img, sun_times, i, lines, texts, phase, shown>>

\* lines 211-231: the sun times of the day
SunTimes ==
    /\ pc = "sun"
    /\ \E q \in SunCases : sun_times' = calculate_sun_times(q)
    /\ pc' = "bands"
    /\ UNCHANGED <<tide_data, img, predictions, i, lines, texts, phase, shown>>

\* lines 233-247: the background bands
DrawBands ==
    /\ pc = "bands"
    /\ LET bad == FirstReversed(BandRects)
       IN  \/ /\ bad = 0
              /\ img' = PaintRects(img, BandRects, Len(BandRects))
              /\ pc' = "hours"
           \/ /\ bad # 0
              /\ img' = PaintRects(img, BandRects, bad - 1)
              /\ pc' = "error"
           \/ /\ bad # 0
              /\ img' = PaintRects(img, BandRects, Len(BandRects))
              /\ pc' = "hours"
    /\ UNCHANGED <<tide_data, predictions, sun_times, i, lines, texts, phase, shown>>

\* lines 253-268: the 23 hour labels
HourLabel(hour) ==
    [kind |-> "hour", x |-> XOfProgress(hour * Hour),
     y |-> graph_bottom + label_padding, txt |-> hour,
     fill |-> IF IsNight(hour * Hour) THEN WHITE ELSE BLACK]

DrawHourLabels ==
    /\ pc = "hours"
    /\ texts' = texts \o [h \in 1 .. 23 |-> HourLabel(h)]
    /\ i' = 0
    /\ pc' = "plot"
    /\ UNCHANGED <<tide_data, img, predictions, sun_times, lines, phase, shown>>

\* lines 271-309: one pass of the loop over the predictions, i from 0
PlotSample ==
    /\ pc = "plot"
    /\ LET n == Len(predictions)
           pred == predictions[i + 1]
           x == XOfIndex(i, n)
           y == YOfValue(pred.v)
           line_color == IF IsNight(pred.t) THEN WHITE ELSE BLACK
           line_width == IF IsFullHour(pred.t) THEN 2 ELSE 1
       IN  /\ img' = VLine(img, x, graph_bottom, y, line_color, line_width)
           /\ lines' = Append(lines, [i |-> i, x |-> x, y |-> y,
                                      fill |-> line_color, width |-> line_width])
           /\ texts' = IF IsExtremum(values, i + 1) /\ InDaylight(pred.t)
                       THEN texts \o
                            <<[kind |-> "value", x |-> x, y |-> y - 15,
                               txt |-> i, fill |-> BLACK],
                              [kind |-> "time", x |-> x, y |-> y - 35,
                               txt |-> i, fill |-> BLACK]>>
                       ELSE texts
           /\ i' = i + 1
           /\ pc' = IF i + 1 = n THEN "moon" ELSE "plot"
    /\ UNCHANGED <<tide_data, predictions, sun_times, phase, shown>>

\* lines 312-317: the moon, drawn last
DrawMoon ==
    /\ pc = "moon"
    /\ \E ph \in Phases :
          /\ phase' = ph
          /\ img' = draw_moon(img, moon_x, moon_y, moon_radius, ph)
    /\ pc' = "show"
    /\ UNCHANGED <<tide_data, predictions, sun_times, i, lines, texts, shown>>

\* lines 320-321: the image goes to the panel
Show ==
    /\ pc = "show"
    /\ shown' = TRUE
    /\ pc' = "done"
    /\ UNCHANGED <<tide_data, img, predictions, sun_times, i, lines, texts, phase>>

Next ==
    \/ Fetch
    \/ DrawBackground
    \/ TideGuard
    \/ SunTimes
    \/ DrawBands
    \/ DrawHourLabels
    \/ PlotSample
    \/ DrawMoon
    \/ Show

Spec == Init /\ [][Next]_vars

\* ===================================================================
\* Properties
\* ===================================================================

\* number of predictions of the response that fall in the local day
DayCount ==
    Cardinality({k \in 1 .. Len(tide_data.predictions) :
                    /\ 0 <= tide_data.predictions[k].t
                    /\ tide_data.predictions[k].t < DaySeconds})

\* the fetch failed, the reply has no predictions, or fewer than 2 remain
Degraded ==
    \/ tide_data.kind = "none"
    \/ tide_data.kind = "error"
    \/ DayCount < 2

AllWhite == \A y \in Rows : \A x \in Cols : img[y][x] = WHITE

\* C1: on the degraded path (fetch failed, no predictions, or fewer than 2
\* predictions of the local day) the tide section is skipped: the run never
\* enters the sun, band, hour-label or plot steps and never fails, no line
\* and no text is drawn, the canvas is entirely white when the moon step
\* starts, and the run ends with the image shown.
C1_DegradedSkipsTideSection ==
    (pc # "fetch" /\ Degraded) =>
        /\ pc \in {"background", "tide", "moon", "show", "done"}
        /\ lines = <<>>
        /\ texts = <<>>
        /\ (pc = "moon" => AllWhite)
        /\ (pc = "done" => shown)

\* a reply with two or more predictions of which fewer than two are of the
\* local day has reached the moon step
C1_Witness ==
    /\ pc = "moon"
    /\ tide_data.kind = "ok"
    /\ Len(tide_data.predictions) >= 2
    /\ DayCount < 2

\* the eight progress values, in seconds, in the fixed event order
ProgressOrder ==
    <<sun_times.dawn, sun_times.sunrise, sun_times.golden_start,
      sun_times.golden_end, sun_times.evening_golden_start,
      sun_times.evening_golden_end, sun_times.sunset, sun_times.dusk>>

\* C2: once the sun times are computed, the eight progress values are
\* non-decreasing in the order dawn, sunrise, goldenStart, goldenEnd,
\* eveningGoldenStart, eveningGoldenEnd, sunset, dusk, and each lies in [0,1].
C2_ProgressOrdered ==
    pc = "bands" =>
        /\ \A k \in 1 .. 7 : ProgressOrder[k] <= ProgressOrder[k + 1]
        /\ \A k \in 1 .. 8 : 0 <= ProgressOrder[k] /\ ProgressOrder[k] <= DaySeconds

\* the chord of the disc in the row at offset dy
Chord(dy, radius) == {px \in 0 .. 2 * radius : InCircle(px, radius + dy, radius)}

\* C3: draw_moon renders the disc fully dark at phase 0 and at phase 1 (in
\* every row the black region covers the whole chord) and fully light at
\* phase 0.5 (the black region covers no pixel of the disc).
C3_NewMoonDarkFullMoonLight ==
    pc = "show" =>
        /\ (phase = 0 \/ phase = PhaseUnits) =>
              \A dy \in (0 - moon_radius) .. moon_radius :
                  \A px \in Chord(dy, moon_radius) : InDark(px, dy, moon_radius, phase)
        /\ 2 * phase = PhaseUnits =>
              \A dy \in (0 - moon_radius) .. moon_radius :
                  \A px \in Chord(dy, moon_radius) : ~InDark(px, dy, moon_radius, phase)

\* the x-coordinates of the band boundaries are in left-to-right order
BoundariesInOrder ==
    /\ graph_x <= x_dawn /\ x_dawn <= x_sunrise /\ x_sunrise <= x_golden_end
    /\ x_golden_end <= x_evening_golden_start
    /\ x_evening_golden_start <= x_sunset /\ x_sunset <= x_dusk
    /\ x_dusk <= graph_x + graph_width

\* the colour of the half-open band that contains column x
HalfOpenBand(x) ==
    IF x < x_dawn THEN BLUE
    ELSE IF x < x_sunrise THEN ORANGE
    ELSE IF x < x_golden_end THEN YELLOW
    ELSE IF x < x_evening_golden_start THEN WHITE
    ELSE IF x < x_sunset THEN YELLOW
    ELSE IF x < x_dusk THEN ORANGE
    ELSE BLUE

\* C4 as stated: after the bands are painted every column has the colour of
\* the half-open band that contains it, [dayStart, x_dawn) blue,
\* [x_dawn, x_sunrise) orange, [x_sunrise, x_goldenEnd) yellow,
\* [x_goldenEnd, x_eveningGoldenStart) white, [x_eveningGoldenStart, x_sunset)
\* yellow, [x_sunset, x_dusk) orange, [x_dusk, dayEnd) blue.
C4_HalfOpenBands ==
    (pc = "hours" /\ BoundariesInOrder) =>
        \A y \in Rows : \A x \in Cols : img[y][x] = HalfOpenBand(x)

Between(x, a, b) == (a <= x /\ x <= b) \/ (b <= x /\ x <= a)

\* the band that owns column x when the closed bands are ranked white over
\* yellow over orange over blue
RankedBand(x) ==
    IF Between(x, x_golden_end, x_evening_golden_start) THEN WHITE
    ELSE IF Between(x, x_sunrise, x_golden_end)
            \/ Between(x, x_evening_golden_start, x_sunset) THEN YELLOW
    ELSE IF Between(x, x_dawn, x_sunrise) \/ Between(x, x_sunset, x_dusk) THEN ORANGE
    ELSE IF Between(x, graph_x, x_dawn)
            \/ Between(x, x_dusk, graph_x + graph_width) THEN BLUE
    ELSE WHITE

\* the bands when the boundaries are in order: a boundary column shared by
\* two bands has the colour of the band painted later
ClosedBand(x) ==
    IF x < x_dawn THEN BLUE
    ELSE IF x < x_sunrise THEN ORANGE
    ELSE IF x < x_golden_end THEN YELLOW
    ELSE IF x <= x_evening_golden_start THEN WHITE
    ELSE IF x <= x_sunset THEN YELLOW
    ELSE IF x <= x_dusk THEN ORANGE
    ELSE BLUE

\* C4 amended: after the bands are painted every column has the colour of
\* the highest ranked closed band that contains it (white over yellow over
\* orange over blue, the reverse of the paint order); with the boundaries
\* in order that is [dayStart, x_dawn) blue, [x_dawn, x_sunrise) orange,
\* [x_sunrise, x_goldenEnd) yellow, [x_goldenEnd, x_eveningGoldenStart]
\* white, (x_eveningGoldenStart, x_sunset] yellow, (x_sunset, x_dusk]
\* orange, (x_dusk, dayEnd] blue.
C4_RankedClosedBands ==
    pc = "hours" =>
        \A y \in Rows : \A x \in Cols :
            /\ img[y][x] = RankedBand(x)
            /\ BoundariesInOrder => img[y][x] = ClosedBand(x)

\* the bands of an ordinary day are painted, all seven of them on the
\* canvas, and the evening boundary columns differ from the half-open rule
C4_Witness ==
    /\ pc = "hours"
    /\ BoundariesInOrder
    /\ graph_x < x_dawn /\ x_dawn < x_sunrise /\ x_sunrise < x_golden_end
    /\ x_golden_end < x_evening_golden_start
    /\ x_evening_golden_start < x_sunset /\ x_sunset < x_dusk
    /\ x_dusk < Width - 1
    /\ img[0][x_evening_golden_start] = WHITE
    /\ img[0][x_sunset] = YELLOW
    /\ img[0][x_dusk] = ORANGE
    /\ img[0][x_dusk + 1] = BLUE

\* the text drawn for sample k (0-based): its value label and its time label
ValueLabelled(k) ==
    \E j \in 1 .. Len(texts) : texts[j].kind = "value" /\ texts[j].txt = k
TimeLabelled(k) ==
    \E j \in 1 .. Len(texts) : texts[j].kind = "time" /\ texts[j].txt = k

\* sample k (0-based) of the day-local series is a strict interior extremum
StrictExtremum(k) ==
    /\ 0 < k /\ k < Len(predictions) - 1
    /\ LET h == predictions[k + 1].v
           a == predictions[k].v
           b == predictions[k + 2].v
       IN  (h > a /\ h > b) \/ (h < a /\ h < b)

\* C5: a plotted sample gets its extremum label exactly when it is not the
\* first or the last sample, its height is strictly above both neighbours
\* or strictly below both, and dawn <= progress <= dusk, both ends included.
C5_LabelIffDaylightExtremum ==
    (pc \in {"plot", "moon", "show", "done"} /\ Len(predictions) >= 2) =>
        \A k \in 0 .. i - 1 :
            LET due == /\ StrictExtremum(k)
                       /\ sun_times.dawn <= predictions[k + 1].t
                       /\ predictions[k + 1].t <= sun_times.dusk
            IN  (ValueLabelled(k) <=> due) /\ (TimeLabelled(k) <=> due)

\* a whole series is plotted with a labelled extremum exactly at dawn and
\* an unlabelled extremum after dusk
C5_Witness ==
    /\ pc = "moon"
    /\ Len(predictions) = 4
    /\ i = 4
    /\ StrictExtremum(1) /\ ValueLabelled(1)
    /\ predictions[2].t = sun_times.dawn
    /\ StrictExtremum(2) /\ ~ValueLabelled(2)

\* the heights of the day-local series, its lowest and its highest
HeightsOf == {predictions[k].v : k \in 1 .. Len(predictions)}
Lowest == CHOOSE h \in HeightsOf : \A g \in HeightsOf : h <= g
Highest == CHOOSE h \in HeightsOf : \A g \in HeightsOf : h >= g

\* C6 as stated: the range is at least 0.5 for every series of at least 2
\* samples, every plotted y lies in [graph_y, graph_y + graph_height], the
\* highest sample is on the top edge graph_y and the lowest sample is
\* strictly above the bottom edge.
C6_LowestStrictlyAboveBottom ==
    (pc \in {"plot", "moon", "show", "done"} /\ Len(predictions) >= 2) =>
        /\ tide_range >= Margin
        /\ \A j \in 1 .. Len(lines) :
              LET h == predictions[lines[j].i + 1].v
              IN  /\ graph_y <= lines[j].y /\ lines[j].y <= graph_y + graph_height
                  /\ h = Highest => lines[j].y = graph_y
                  /\ h = Lowest => lines[j].y < graph_y + graph_height

\* C6 amended: the range is at least 0.5, every plotted y lies in
\* [graph_y, graph_y + graph_height], the highest sample is on the top edge,
\* and the lowest sample is strictly above the bottom edge exactly when
\* max - min + 0.5 <= graph_height / 2 (heights in tenths: range <= 5 *
\* graph_height); with a larger range it lies on the bottom edge.
C6_ScalingWithinGraph ==
    (pc \in {"plot", "moon", "show", "done"} /\ Len(predictions) >= 2) =>
        /\ tide_range >= Margin
        /\ tide_range = Highest - Lowest + Margin
        /\ \A j \in 1 .. Len(lines) :
              LET h == predictions[lines[j].i + 1].v
              IN  /\ graph_y <= lines[j].y /\ lines[j].y <= graph_y + graph_height
                  /\ h = Highest => lines[j].y = graph_y
                  /\ h = Lowest =>
                        (lines[j].y < graph_y + graph_height
                            <=> Highest - Lowest + Margin <= Margin * graph_height)

\* a flat series (all heights equal) is plotted: the range is the margin
\* alone and every line ends on the top edge
C6_Witness ==
    /\ pc = "moon"
    /\ Len(predictions) >= 2
    /\ Len(lines) = Len(predictions)
    /\ Highest = Lowest
    /\ tide_range = Margin
    /\ \A j \in 1 .. Len(lines) : lines[j].y = graph_y

\* C7: the x mapping is non-decreasing, maps progress 0 to graph_x and
\* progress 1 to graph_x + graph_width; this holds for the sun events with
\* progress in [0,1], for the hour labels, and for the tide samples, whose
\* first line is at graph_x, whose last line is at graph_x + graph_width and
\* whose x never decreases with the index.
C7_XMappingMonotone ==
    /\ XOfProgress(0) = graph_x
    /\ XOfProgress(DaySeconds) = graph_x + graph_width
    /\ pc \in {"bands", "hours", "plot", "moon", "show", "done", "error"}
       /\ Len(predictions) >= 2 =>
          \A a \in 1 .. 8 : \A b \in 1 .. 8 :
              (/\ 0 <= ProgressOrder[a] /\ ProgressOrder[b] <= DaySeconds
               /\ ProgressOrder[a] <= ProgressOrder[b]) =>
                  /\ graph_x <= XOfProgress(ProgressOrder[a])
                  /\ XOfProgress(ProgressOrder[a]) <= XOfProgress(ProgressOrder[b])
                  /\ XOfProgress(ProgressOrder[b]) <= graph_x + graph_width
    /\ \A a \in 1 .. Len(texts) : \A b \in 1 .. Len(texts) :
          (/\ texts[a].kind = "hour" /\ texts[b].kind = "hour"
           /\ texts[a].txt <= texts[b].txt) =>
              /\ graph_x <= texts[a].x
              /\ texts[a].x <= texts[b].x
              /\ texts[b].x <= graph_x + graph_width
    /\ \A j \in 1 .. Len(lines) :
          /\ lines[j].i = 0 => lines[j].x = graph_x
          /\ lines[j].i = Len(predictions) - 1 => lines[j].x = graph_x + graph_width
          /\ j > 1 => lines[j - 1].x <= lines[j].x

\* the four lines of a four-sample day are drawn, from graph_x to
\* graph_x + graph_width, after the 23 hour labels
C7_Witness ==
    /\ pc = "moon"
    /\ Len(lines) = 4
    /\ lines[1].x = graph_x
    /\ lines[2].x > graph_x
    /\ lines[4].x = graph_x + graph_width
    /\ Len(texts) >= 23

\* the series in reverse order
Reverse(vs) == [k \in 1 .. Len(vs) |-> vs[Len(vs) + 1 - k]]

\* C8: the extremum test flags the same samples on the reversed series: a
\* sample is a peak (a trough) of the series exactly when it is a peak (a
\* trough) of the reversed series at the mirrored index.
C8_ExtremaReversalSymmetric ==
    Len(predictions) >= 2 =>
        LET vs == values
            n == Len(vs)
        IN  \A k \in 1 .. n :
                /\ IsExtremum(vs, k) <=> IsExtremum(Reverse(vs), n + 1 - k)
                /\ (k > 1 /\ k < n) =>
                      /\ IsPeak(vs, k) <=> IsPeak(Reverse(vs), n + 1 - k)
                      /\ IsTrough(vs, k) <=> IsTrough(Reverse(vs), n + 1 - k)

\* a series that is not its own reverse, with a peak whose mirror image is
\* at another index, and its label drawn
C8_Witness ==
    /\ pc = "moon"
    /\ Len(predictions) = 4
    /\ values # Reverse(values)
    /\ IsPeak(values, 2)
    /\ ~IsExtremum(values, 3)
    /\ IsPeak(Reverse(values), 3)
    /\ ValueLabelled(1)

\* canvas pixel (x, y) lies in the circle of moon_radius around the moon
InMoonCircle(x, y) ==
    (x - moon_x) * (x - moon_x) + (y - moon_y) * (y - moon_y)
        <= moon_radius * moon_radius

\* C9: the moon is the last drawing step: it draws no line and no text, it
\* changes no pixel outside the circle of moon_radius around (moon_x,
\* moon_y), and nothing is drawn after it.
C9_MoonLastAndInsideCircle ==
    [][/\ pc = "moon" =>
             /\ lines' = lines /\ texts' = texts
             /\ \A y \in Rows : \A x \in Cols :
                    ~InMoonCircle(x, y) => img'[y][x] = img[y][x]
       /\ pc \in {"show", "done"} =>
             img' = img /\ lines' = lines /\ texts' = texts
       /\ pc' = "moon" => pc \in {"tide", "plot"}]_vars

\* the moon is composited over a painted chart: a pixel of the disc is
\* black, and coloured band pixels remain next to it inside the pasted box
C9_Witness ==
    /\ pc = "show"
    /\ Len(lines) >= 2
    /\ \E y \in Rows : \E x \in Cols : InMoonCircle(x, y) /\ img[y][x] = BLACK
    /\ \E y \in Rows : \E x \in Cols :
          /\ ~InMoonCircle(x, y)
          /\ x >= moon_x - moon_radius /\ y >= moon_y - moon_radius
          /\ img[y][x] \in {BLUE, ORANGE, YELLOW}

\* the colour of the band under column x, read on the row below the graph,
\* where no tide line is drawn, before the moon is composited
BandUnder(x) == img[graph_bottom + 1][x]

\* C10: for a day of uniformly spaced samples starting at local midnight
\* and covering the day, every tide line drawn white stands on a blue
\* column and every tide line drawn black stands on a column that is not
\* blue.
C10_LineColourAgreesWithBand ==
    (/\ pc \in {"plot", "moon"}
     /\ BoundariesInOrder
     /\ Len(predictions) >= 2
     /\ predictions[1].t = 0
     /\ Len(predictions) * (predictions[2].t - predictions[1].t) >= DaySeconds) =>
        \A j \in 1 .. Len(lines) :
            lines[j].x \in Cols =>
                /\ lines[j].fill = WHITE => BandUnder(lines[j].x) = BLUE
                /\ lines[j].fill = BLACK => BandUnder(lines[j].x) # BLUE

====
